---- MODULE Spec2Model ----
(***************************************************************************)
(* A model of rbuild (src/rbuild/RBuild.cpp): the indexing pass that       *)
(* visits the front end's cursors and merges them into the Entry Store     *)
(* (collectSymbols), the write pass that threads declarations, propagates  *)
(* back-references and persists the database (writeData), the dependency   *)
(* records collected per translation unit (compile, getInclusions) and     *)
(* the staleness scan over a persisted database (updateDB).                *)
(*                                                                         *)
(* Strings (QByteArray, AtomicString, Path) are sequences of one-character *)
(* strings, so that concatenation, number formatting and prefix search are *)
(* computed as the code computes them.                                     *)
(***************************************************************************)
EXTENDS Integers, Sequences, FiniteSets, TLC

VARIABLES
    data,          \* mData->data: the list of DataEntry
    seen,          \* mData->seen: locationKey -> index into data
    dependencies,  \* mData->dependencies: the list of Dependencies records
    db,            \* the leveldb database at mDBPath
    mtime,         \* the file system: path -> modification time
    pc,            \* where the process is
    todo,          \* compile(): the inputs of the job still to be parsed
    unit,          \* compile(): the input whose cursors are being visited
    jobArgs,       \* compile(): the GccArguments of the job being compiled
    njobs,         \* number of compile() calls made so far by this process
    visitResult,   \* what the last call of collectSymbols returned
    dirty,         \* updateDB(): the dirty map built by the last scan
    updateResult,  \* what the last call of updateDB returned
    reported,      \* whether the process reported a consistency violation
    compared       \* a comparison of two keys: the keys and what the operators gave

vars ==
    <<data, seen, dependencies, db, mtime, pc, todo, unit, jobArgs, njobs,
      visitResult, dirty, updateResult, reported, compared>>

----------------------------------------------------------------------------
(* Bounds of the model. *)

MaxEntries == 2
MaxParentNames == 1
MaxJobs == 1
MaxDeps == 2
MaxTime == 2
MaxChain == 2
MaxOff == 1

----------------------------------------------------------------------------
(* Byte strings. *)

Digit ==
    <<"0", "1", "2", "3", "4", "5", "6", "7", "8", "9">>

RECURSIVE Number(_)
\* QByteArray::number(n): the decimal digits of n
Number(n) ==
    IF n < 10 THEN <<Digit[n + 1]>>
    ELSE Number(n \div 10) \o <<Digit[(n % 10) + 1]>>

\* the byte values of the characters the model's strings are made of
Byte ==
    (" " :> 32) @@ ("(" :> 40) @@ (")" :> 41) @@ ("-" :> 45) @@ ("." :> 46) @@ ("/" :> 47)
    @@ ("0" :> 48) @@ ("1" :> 49) @@ ("2" :> 50) @@ ("3" :> 51) @@ ("4" :> 52)
    @@ ("5" :> 53) @@ ("6" :> 54) @@ ("7" :> 55) @@ ("8" :> 56) @@ ("9" :> 57)
    @@ (":" :> 58) @@ ("F" :> 70) @@ ("I" :> 73)
    @@ ("a" :> 97) @@ ("b" :> 98) @@ ("c" :> 99) @@ ("d" :> 100) @@ ("f" :> 102)
    @@ ("h" :> 104) @@ ("i" :> 105) @@ ("l" :> 108) @@ ("n" :> 110)
    @@ ("o" :> 111) @@ ("p" :> 112) @@ ("r" :> 114) @@ ("t" :> 116) @@ ("z" :> 122)

RECURSIVE BytesLess(_, _)
\* bytewise order of two strings (leveldb's default comparator)
BytesLess(a, b) ==
    IF b = <<>> THEN FALSE
    ELSE IF a = <<>> THEN TRUE
    ELSE IF Byte[Head(a)] < Byte[Head(b)] THEN TRUE
    ELSE IF Byte[Head(a)] > Byte[Head(b)] THEN FALSE
    ELSE BytesLess(Tail(a), Tail(b))

\* QByteArray::indexOf(ch): the 0-based index of the first ch, or -1
IndexOf(s, ch) ==
    IF \E i \in 1..Len(s) : s[i] = ch
    THEN (CHOOSE i \in 1..Len(s) : s[i] = ch /\ \A j \in 1..(i - 1) : s[j] # ch) - 1
    ELSE -1

\* QByteArray::left(n)
Left(s, n) ==
    SubSeq(s, 1, n)

\* an empty QHash
EmptyMap ==
    [x \in {} |-> x]

----------------------------------------------------------------------------
(* Cursor kinds (enum CXCursorKind of clang-c/Index.h). *)

CXCursor_StructDecl == 2
CXCursor_ClassDecl == 4
CXCursor_FieldDecl == 6
CXCursor_FunctionDecl == 8
CXCursor_VarDecl == 9
CXCursor_CXXMethod == 21
CXCursor_Namespace == 22
CXCursor_Constructor == 24
CXCursor_Destructor == 25
CXCursor_FirstRef == 40
CXCursor_LastRef == 49
CXCursor_FirstInvalid == 70
CXCursor_LastInvalid == 73
CXCursor_FirstExpr == 100
CXCursor_DeclRefExpr == 101
CXCursor_CallExpr == 103
CXCursor_LastExpr == 136
CXCursor_MacroDefinition == 501
CXCursor_InclusionDirective == 503

----------------------------------------------------------------------------
(* The files and the front end's cursors.  A cursor is an index into        *)
(* Cursor; 0 is clang_getNullCursor().                                      *)

HeaderPath == <<"/", "a", ".", "h">>
SourceA == <<"/", "a", ".", "c">>
SourceB == <<"/", "b", ".", "c">>
HeaderLink == <<"/", "l", ".", "h">>
Files == {HeaderPath, SourceA, SourceB}

\* Path::resolved(): HeaderLink is a symbolic link to HeaderPath, every
\* other path of the model is already absolute and normalized
PathResolved(p) ==
    IF p = HeaderLink THEN HeaderPath ELSE p

NameFoo == <<"F", "o", "o">>
NameBar == <<"b", "a", "r", "(", "i", "n", "t", ")">>
NameFn == <<"f", "(", ")">>
NameCall == <<"f">>
NameIncl == <<"l", ".", "h">>
NameBaz == <<"b", "a", "z", "(", ")">>
NameMacro == <<"M">>
NameVar == <<"x">>

NullCursor == 0
cFoo == 1
cBarDecl == 2
cBarDef == 3
cFnDecl == 4
cFnDef == 5
cCall == 6
cDeclRef == 7
cInclude == 8
cAnon == 9
cBazDef == 10
cBuiltin == 11
cMacro == 12
cVarDecl == 13
cVarDef == 14

Mk(kind, file, name, line, col, off, isDef, parent, included) ==
    [kind |-> kind, file |-> file, name |-> name, line |-> line, col |-> col,
     off |-> off, isDef |-> isDef, parent |-> parent, included |-> included]

\* /a.h:   class Foo { void bar(int); };
\* /a.c:   #include "l.h"          (l.h is a link to a.h)
\*         void Foo::bar(int) {}
\*         void f();
\*         void f() { f(); }
\* /b.c:   #include "a.c"
\* a definition cursor without a display name, a method of an unnamed
\* struct that a macro defines at the place of bar's declaration, and a
\* declaration the compiler builds in, which is in no file.
\* /a.h:   #define M 1            (line 2)
\*         extern int x;          (line 3)
\* /a.c:   int x = M;             (line 6)
Cursor ==
    <<Mk(CXCursor_ClassDecl, HeaderPath, NameFoo, 1, 7, 6, TRUE, NullCursor, <<>>),
      Mk(CXCursor_CXXMethod, HeaderPath, NameBar, 1, 18, 17, FALSE, cFoo, <<>>),
      Mk(CXCursor_CXXMethod, SourceA, NameBar, 2, 11, 26, TRUE, cFoo, <<>>),
      Mk(CXCursor_FunctionDecl, SourceA, NameFn, 3, 6, 43, FALSE, NullCursor, <<>>),
      Mk(CXCursor_FunctionDecl, SourceA, NameFn, 4, 6, 53, TRUE, NullCursor, <<>>),
      Mk(CXCursor_CallExpr, SourceA, NameCall, 4, 12, 59, FALSE, cFnDef, <<>>),
      Mk(CXCursor_DeclRefExpr, SourceA, NameCall, 4, 12, 59, FALSE, cFnDef, <<>>),
      Mk(CXCursor_InclusionDirective, SourceA, NameIncl, 1, 1, 0, FALSE, NullCursor,
         HeaderLink),
      Mk(CXCursor_CXXMethod, SourceA, <<>>, 5, 1, 70, TRUE, NullCursor, <<>>),
      Mk(CXCursor_CXXMethod, HeaderPath, NameBaz, 1, 18, 17, TRUE, NullCursor,
         <<>>),
      Mk(CXCursor_FunctionDecl, <<>>, NameFn, 0, 0, 0, FALSE, NullCursor, <<>>),
      Mk(CXCursor_MacroDefinition, HeaderPath, NameMacro, 2, 9, 40, FALSE,
         NullCursor, <<>>),
      Mk(CXCursor_VarDecl, HeaderPath, NameVar, 3, 12, 55, FALSE, NullCursor, <<>>),
      Mk(CXCursor_VarDecl, SourceA, NameVar, 6, 5, 80, TRUE, NullCursor, <<>>)>>

\* the cursors of the units that Spec indexes
Cursors == 1..cBuiltin

\* what clang_getCursorDefinition may answer for a cursor
DefinitionAnswers(c) ==
    CASE c = cFoo -> {cFoo}
      [] c = cBarDecl -> {NullCursor, cBarDef, cAnon}
      [] c = cBarDef -> {cBarDef}
      [] c = cFnDecl -> {NullCursor, cFnDef}
      [] c = cFnDef -> {cFnDef}
      [] c = cBazDef -> {cBazDef}
      [] c = cCall -> {NullCursor, cFnDef}
      [] c = cDeclRef -> {NullCursor, cFnDef}
      [] c = cVarDecl -> {NullCursor, cVarDef}
      [] c = cVarDef -> {cVarDef}
      [] OTHER -> {NullCursor}

\* what clang_getCursorReferenced may answer for a cursor
ReferencedAnswers(c) ==
    CASE c = cCall -> {NullCursor, cFnDecl}
      [] c = cDeclRef -> {cFnDecl}
      [] c = cInclude -> {NullCursor}
      [] c = cAnon -> {NullCursor}
      [] OTHER -> {c}

----------------------------------------------------------------------------
(* CursorKey. *)

clang_isInvalid(kind) ==
    kind >= CXCursor_FirstInvalid /\ kind <= CXCursor_LastInvalid

clang_getCursorKind(c) ==
    IF c = NullCursor THEN CXCursor_FirstInvalid ELSE Cursor[c].kind

clang_isCursorDefinition(c) ==
    IF c = NullCursor THEN FALSE ELSE Cursor[c].isDef

clang_getCursorSemanticParent(c) ==
    IF c = NullCursor THEN NullCursor ELSE Cursor[c].parent

cursorDefinition(c) ==
    IF clang_getCursorKind(c) = CXCursor_MacroDefinition THEN TRUE
    ELSE clang_isCursorDefinition(c)

\* cursorDefinitionFor with the test of the visited cursor's kind inverted
cursorDefinitionForOnlyCalls(d, c) ==
    IF clang_getCursorKind(c) = CXCursor_CallExpr THEN cursorDefinition(d)
    ELSE FALSE

\* cursorDefinitionFor testing the kind of the definition d, not of c
cursorDefinitionForDefinition(d, c) ==
    IF clang_getCursorKind(d) = CXCursor_CallExpr THEN FALSE
    ELSE cursorDefinition(d)

cursorDefinitionFor(d, c) ==
    IF clang_getCursorKind(c) = CXCursor_CallExpr THEN FALSE
    ELSE cursorDefinition(d)

\* CursorKey::CursorKey()
NullKey ==
    [kind |-> CXCursor_FirstInvalid, fileName |-> <<>>, symbolName |-> <<>>,
     line |-> 0, col |-> 0, off |-> 0, def |-> FALSE]

\* CursorKey::CursorKey(const CXCursor &)
CursorKey(c) ==
    IF clang_isInvalid(clang_getCursorKind(c))
    THEN [NullKey EXCEPT !.kind = clang_getCursorKind(c)]
    ELSE [kind |-> Cursor[c].kind,
          fileName |-> PathResolved(Cursor[c].file),
          symbolName |-> Cursor[c].name,
          line |-> Cursor[c].line, col |-> Cursor[c].col, off |-> Cursor[c].off,
          def |-> cursorDefinition(c)]

isValid(key) ==
    key.fileName # <<>> /\ key.symbolName # <<>>

isNull(key) ==
    ~isValid(key)

\* CursorKey::operator== comparing the line where the code compares the offset
KeyEqByLine(a, b) ==
    IF isNull(a) THEN isNull(b)
    ELSE /\ a.kind = b.kind
         /\ a.line = b.line
         /\ a.fileName = b.fileName
         /\ a.symbolName = b.symbolName

\* CursorKey::operator==
KeyEq(a, b) ==
    IF isNull(a) THEN isNull(b)
    ELSE /\ a.kind = b.kind
         /\ a.off = b.off
         /\ a.fileName = b.fileName
         /\ a.symbolName = b.symbolName

\* AtomicString::strcmp: negative, zero or positive as a sorts before, with
\* or after b in byte order
strcmp(a, b) ==
    IF a = b THEN 0 ELSE IF BytesLess(a, b) THEN -1 ELSE 1

\* CursorKey::operator< with the symbol name compared before the offset
KeyLessNameFirst(a, b) ==
    IF ~isValid(a) THEN TRUE
    ELSE IF ~isValid(b) THEN FALSE
    ELSE IF strcmp(a.fileName, b.fileName) < 0 THEN TRUE
    ELSE IF strcmp(a.fileName, b.fileName) > 0 THEN FALSE
    ELSE IF strcmp(a.symbolName, b.symbolName) < 0 THEN TRUE
    ELSE IF strcmp(a.symbolName, b.symbolName) > 0 THEN FALSE
    ELSE IF a.off < b.off THEN TRUE
    ELSE IF a.off > b.off THEN FALSE
    ELSE a.kind < b.kind

\* CursorKey::operator<
KeyLess(a, b) ==
    IF ~isValid(a) THEN TRUE
    ELSE IF ~isValid(b) THEN FALSE
    ELSE IF strcmp(a.fileName, b.fileName) < 0 THEN TRUE
    ELSE IF strcmp(a.fileName, b.fileName) > 0 THEN FALSE
    ELSE IF a.off < b.off THEN TRUE
    ELSE IF a.off > b.off THEN FALSE
    ELSE IF strcmp(a.symbolName, b.symbolName) < 0 THEN TRUE
    ELSE IF strcmp(a.symbolName, b.symbolName) > 0 THEN FALSE
    ELSE a.kind < b.kind

locationKey(key) ==
    key.fileName \o <<":">> \o Number(key.off)

cursorKeyToString(key) ==
    key.fileName \o <<":">> \o Number(key.line) \o <<":">> \o Number(key.col)

equalLocation(key1, key2) ==
    key1.off = key2.off /\ key1.fileName = key2.fileName

----------------------------------------------------------------------------
(* CollectData. *)

\* CollectData::Data
NullData ==
    [cursor |-> NullKey, parentNames |-> <<>>]

\* CollectData::DataEntry::DataEntry()
NewEntry ==
    [hasDefinition |-> FALSE, cursor |-> NullData, reference |-> NullData,
     references |-> {}]

\* QHash::value(): 0 stands for the null pointer
SeenValue(s, k) ==
    IF k \in DOMAIN s THEN s[k] ELSE 0

RECURSIVE ParentNames(_)
\* the loop of addCursor: the names of the enclosing structs, classes and
\* namespaces, up to the first parent whose key is invalid
ParentNames(c) ==
    LET parent == clang_getCursorSemanticParent(c)
        parentKey == CursorKey(parent)
    IN  IF ~isValid(parentKey) THEN <<>>
        ELSE (IF parentKey.kind \in {CXCursor_StructDecl, CXCursor_ClassDecl,
                                      CXCursor_Namespace}
              THEN <<parentKey.symbolName>> ELSE <<>>) \o ParentNames(parent)

addCursor(c, key, d) ==
    [cursor |-> key, parentNames |-> d.parentNames \o ParentNames(c)]

\* a key for the included file that takes the directive's display name as its
\* symbol name
InclusionKeyNamed(c) ==
    [NullKey EXCEPT !.fileName = Cursor[c].included,
                    !.symbolName = Cursor[c].name,
                    !.line = 1, !.col = 1, !.off = 0]

\* the key collectSymbols builds for the file an inclusion directive includes
InclusionKey(c) ==
    [NullKey EXCEPT !.fileName = Cursor[c].included,
                    !.symbolName = Cursor[c].included,
                    !.line = 1, !.col = 1, !.off = 0]

\* the body of collectSymbols with a reference-shaped visit that also sets
\* hasDefinition when the visited cursor is a definition
VisitEntryDefines(entry, c, definition, reference) ==
    LET key == CursorKey(c)
        definitionKey == CursorKey(definition)
        referenceKey == CursorKey(reference)
    IN  IF key.kind = CXCursor_InclusionDirective
        THEN [entry EXCEPT !.cursor = addCursor(c, key, entry.cursor),
                           !.reference = addCursor(NullCursor, InclusionKey(c),
                                                   entry.reference),
                           !.hasDefinition = TRUE]
        ELSE IF ~cursorDefinition(definition) \/ equalLocation(key, definitionKey)
        THEN IF /\ \/ isNull(entry.reference.cursor)
                   \/ KeyEq(entry.reference.cursor, entry.cursor.cursor)
                /\ isValid(referenceKey)
             THEN [entry EXCEPT !.cursor = addCursor(c, key, entry.cursor),
                                !.reference = addCursor(reference, referenceKey,
                                                        entry.reference),
                                !.hasDefinition = key.def]
             ELSE entry
        ELSE [entry EXCEPT
                !.hasDefinition = IF cursorDefinitionFor(definition, c) THEN TRUE
                                  ELSE entry.hasDefinition,
                !.cursor = addCursor(c, key, entry.cursor),
                !.reference = IF isValid(definitionKey)
                              THEN addCursor(definition, definitionKey,
                                             entry.reference)
                              ELSE entry.reference]

\* the body of collectSymbols with a reference-shaped visit that assigns
\* without looking at the reference the Entry already has
VisitEntryUnguarded(entry, c, definition, reference) ==
    LET key == CursorKey(c)
        definitionKey == CursorKey(definition)
        referenceKey == CursorKey(reference)
    IN  IF key.kind = CXCursor_InclusionDirective
        THEN [entry EXCEPT !.cursor = addCursor(c, key, entry.cursor),
                           !.reference = addCursor(NullCursor, InclusionKey(c),
                                                   entry.reference),
                           !.hasDefinition = TRUE]
        ELSE IF ~cursorDefinition(definition) \/ equalLocation(key, definitionKey)
        THEN IF isValid(referenceKey)
             THEN [entry EXCEPT !.cursor = addCursor(c, key, entry.cursor),
                                !.reference = addCursor(reference, referenceKey,
                                                        entry.reference)]
             ELSE entry
        ELSE [entry EXCEPT
                !.hasDefinition = IF cursorDefinitionFor(definition, c) THEN TRUE
                                  ELSE entry.hasDefinition,
                !.cursor = addCursor(c, key, entry.cursor),
                !.reference = IF isValid(definitionKey)
                              THEN addCursor(definition, definitionKey,
                                             entry.reference)
                              ELSE entry.reference]

\* the body of collectSymbols once the Entry is found or created: entry is the
\* Entry, c the visited cursor, definition and reference the front end's answers
\* to clang_getCursorDefinition and clang_getCursorReferenced
VisitEntry(entry, c, definition, reference) ==
    LET key == CursorKey(c)
        definitionKey == CursorKey(definition)
        referenceKey == CursorKey(reference)
    IN  IF key.kind = CXCursor_InclusionDirective
        THEN [entry EXCEPT !.cursor = addCursor(c, key, entry.cursor),
                           !.reference = addCursor(NullCursor, InclusionKey(c),
                                                   entry.reference),
                           !.hasDefinition = TRUE]
        ELSE IF ~cursorDefinition(definition) \/ equalLocation(key, definitionKey)
        THEN IF /\ \/ isNull(entry.reference.cursor)
                   \/ KeyEq(entry.reference.cursor, entry.cursor.cursor)
                /\ isValid(referenceKey)
             THEN [entry EXCEPT !.cursor = addCursor(c, key, entry.cursor),
                                !.reference = addCursor(reference, referenceKey,
                                                        entry.reference)]
             ELSE entry
        ELSE [entry EXCEPT
                !.hasDefinition = IF cursorDefinitionFor(definition, c) THEN TRUE
                                  ELSE entry.hasDefinition,
                !.cursor = addCursor(c, key, entry.cursor),
                !.reference = IF isValid(definitionKey)
                              THEN addCursor(definition, definitionKey,
                                             entry.reference)
                              ELSE entry.reference]

\* collectSymbols without the early return for an Entry that has its
\* definition
collectSymbolsOverwrites(d, s, c, definition, reference) ==
    LET key == CursorKey(c)
        lk == locationKey(key)
    IN  IF ~isValid(key)
        THEN [data |-> d, seen |-> s, result |-> "recurse"]
        ELSE LET d1 == IF lk \in DOMAIN s THEN d ELSE Append(d, NewEntry)
                 s1 == IF lk \in DOMAIN s THEN s ELSE s @@ (lk :> (Len(d) + 1))
                 i == s1[lk]
             IN  [data |-> [d1 EXCEPT ![i] = VisitEntry(d1[i], c, definition,
                                                        reference)],
                  seen |-> s1,
                  result |-> IF key.kind = CXCursor_InclusionDirective
                             THEN "continue" ELSE "recurse"]

\* collectSymbols without the test of the key at its start
collectSymbolsKeepsInvalid(d, s, c, definition, reference) ==
    LET key == CursorKey(c)
        lk == locationKey(key)
    IN  IF lk \in DOMAIN s /\ d[s[lk]].hasDefinition
        THEN [data |-> d, seen |-> s, result |-> "recurse"]
        ELSE LET d1 == IF lk \in DOMAIN s THEN d ELSE Append(d, NewEntry)
                 s1 == IF lk \in DOMAIN s THEN s ELSE s @@ (lk :> (Len(d) + 1))
                 i == s1[lk]
             IN  [data |-> [d1 EXCEPT ![i] = VisitEntry(d1[i], c, definition,
                                                        reference)],
                  seen |-> s1,
                  result |-> IF key.kind = CXCursor_InclusionDirective
                             THEN "continue" ELSE "recurse"]

\* collectSymbols: the Entry Store and the visitor's answer after visiting c
collectSymbols(d, s, c, definition, reference) ==
    LET key == CursorKey(c)
        lk == locationKey(key)
    IN  IF ~isValid(key)
        THEN [data |-> d, seen |-> s, result |-> "recurse"]
        ELSE IF lk \in DOMAIN s /\ d[s[lk]].hasDefinition
        THEN [data |-> d, seen |-> s, result |-> "recurse"]
        ELSE LET d1 == IF lk \in DOMAIN s THEN d ELSE Append(d, NewEntry)
                 s1 == IF lk \in DOMAIN s THEN s ELSE s @@ (lk :> (Len(d) + 1))
                 i == s1[lk]
             IN  [data |-> [d1 EXCEPT ![i] = VisitEntry(d1[i], c, definition,
                                                        reference)],
                  seen |-> s1,
                  result |-> IF key.kind = CXCursor_InclusionDirective
                             THEN "continue" ELSE "recurse"]

----------------------------------------------------------------------------
(* The write pass. *)

isMethodKind(kind) ==
    kind \in {CXCursor_CXXMethod, CXCursor_Constructor, CXCursor_Destructor}

\* Q_ASSERT(def && def != entry) of writeData, for the Entry at index i whose
\* reference's locationKey is looked up in seen as def (0: not found)
AssertDef(def, i) ==
    def # 0 /\ def # i

\* whether the Entry at index i is a declaration that writeData threads
isThreaded(d, i) ==
    /\ isMethodKind(d[i].cursor.cursor.kind)
    /\ ~KeyEq(d[i].cursor.cursor, d[i].reference.cursor)
    /\ ~d[i].cursor.cursor.def

\* the threading assignment written the other way round:
\* entry->reference = def->cursor
ThreadDeclarationReversed(d, def, i) ==
    [d EXCEPT ![i].reference = d[def].cursor]

\* def->reference = entry->cursor, for the declaration at index i
ThreadDeclaration(d, def, i) ==
    [d EXCEPT ![def].reference = d[i].cursor]

\* the back-reference step without its r == entry test
BackReferenceToSelf(d, s, i) ==
    LET r == SeenValue(s, locationKey(d[i].reference.cursor))
    IN  IF r # 0
        THEN [d EXCEPT ![r].references =
                           @ \cup {cursorKeyToString(d[i].cursor.cursor)}]
        ELSE d

\* the back-reference step inserting the Entry's locationKey (file:offset)
\* where the code inserts its location string (file:line:col)
BackReferenceByOffset(d, s, i) ==
    LET r == SeenValue(s, locationKey(d[i].reference.cursor))
    IN  IF r = i THEN d
        ELSE IF r # 0
        THEN [d EXCEPT ![r].references =
                           @ \cup {locationKey(d[i].cursor.cursor)}]
        ELSE d

\* the rest of the loop's body for an Entry that is no method, constructor
\* or destructor: its location is added to the Entry its reference names
BackReference(d, s, i) ==
    LET r == SeenValue(s, locationKey(d[i].reference.cursor))
    IN  IF r = i THEN d
        ELSE IF r # 0
        THEN [d EXCEPT ![r].references =
                           @ \cup {cursorKeyToString(d[i].cursor.cursor)}]
        ELSE d

RECURSIVE PropagatePass(_, _, _, _)
\* the first loop of writeData from index i on.  build is "debug" (a failed
\* Q_ASSERT aborts) or "release" (Q_ASSERT is compiled out, and a null def is
\* written through, which ends the process).  The outcome is "ok", "aborted"
\* or "crashed", data the list when the loop ended.
PropagatePass(d, s, i, build) ==
    IF i > Len(d) THEN [data |-> d, outcome |-> "ok"]
    ELSE IF isMethodKind(d[i].cursor.cursor.kind)
    THEN IF isThreaded(d, i)
         THEN LET def == SeenValue(s, locationKey(d[i].reference.cursor))
              IN  IF ~AssertDef(def, i) /\ build = "debug"
                  THEN [data |-> d, outcome |-> "aborted"]
                  ELSE IF def = 0
                  THEN [data |-> d, outcome |-> "crashed"]
                  ELSE PropagatePass(ThreadDeclaration(d, def, i), s, i + 1, build)
         ELSE PropagatePass(d, s, i + 1, build)
    ELSE PropagatePass(BackReference(d, s, i), s, i + 1, build)

makeRefValue(entry) ==
    <<cursorKeyToString(entry.reference.cursor), entry.references>>

\* the records writeEntry puts, one per valid Entry, a later Entry
\* overwriting an earlier one that has the same key
EntryRecords(d) ==
    LET valid == {i \in 1..Len(d) : isValid(d[i].cursor.cursor)}
        keys == {cursorKeyToString(d[i].cursor.cursor) : i \in valid}
        last(k) == CHOOSE i \in valid :
                       /\ cursorKeyToString(d[i].cursor.cursor) = k
                       /\ \A j \in valid :
                              cursorKeyToString(d[j].cursor.cursor) = k => j <= i
    IN  [k \in keys |-> makeRefValue(d[last(k)])]

RECURSIVE QualifiedNamesFixedColon(_, _, _, _)
\* the foreach over parents without the adjustment of colon to the prefix
\* that was prepended
QualifiedNamesFixedColon(name, colon, parents, location) ==
    IF parents = <<>> THEN {}
    ELSE LET name1 == Head(parents) \o <<":", ":">> \o name
         IN  (IF colon # -1 THEN {<<Left(name1, colon), location>>} ELSE {})
             \cup {<<name1, location>>}
             \cup QualifiedNamesFixedColon(name1, colon, Tail(parents), location)

RECURSIVE QualifiedNames(_, _, _, _)
\* the foreach over parents in collectDict: the <<name, location>> pairs
\* it inserts, name and colon being the loop's running values
QualifiedNames(name, colon, parents, location) ==
    IF parents = <<>> THEN {}
    ELSE LET name1 == Head(parents) \o <<":", ":">> \o name
             colon1 == IF colon # -1 THEN colon + (Len(name1) - Len(name))
                       ELSE colon
         IN  (IF colon # -1 THEN {<<Left(name1, colon1), location>>} ELSE {})
             \cup {<<name1, location>>}
             \cup QualifiedNames(name1, colon1, Tail(parents), location)

isContainerBearing(kind) ==
    kind \in {CXCursor_Namespace, CXCursor_ClassDecl, CXCursor_StructDecl,
              CXCursor_FieldDecl, CXCursor_CXXMethod, CXCursor_Constructor,
              CXCursor_Destructor}

\* an iteration of collectDict's loop without the test of the kind's category
DictOfSideAnyKind(side) ==
    LET key == side.cursor
        name == key.symbolName
        location == cursorKeyToString(key)
        colon == IndexOf(name, "(")
    IN  IF ~isValid(key) THEN {}
        ELSE {<<name, location>>}
             \cup (IF colon # -1 THEN {<<Left(name, colon), location>>} ELSE {})
             \cup (IF isContainerBearing(key.kind)
                   THEN QualifiedNames(name, colon, side.parentNames, location)
                   ELSE {})

\* one iteration of collectDict's loop over the two sides of an Entry
DictOfSide(side) ==
    LET key == side.cursor
        name == key.symbolName
        location == cursorKeyToString(key)
        colon == IndexOf(name, "(")
    IN  IF ~isValid(key) THEN {}
        ELSE IF \/ (key.kind >= CXCursor_FirstRef /\ key.kind <= CXCursor_LastRef)
                \/ (key.kind >= CXCursor_FirstExpr /\ key.kind <= CXCursor_LastExpr)
        THEN {}
        ELSE {<<name, location>>}
             \cup (IF colon # -1 THEN {<<Left(name, colon), location>>} ELSE {})
             \cup (IF isContainerBearing(key.kind)
                   THEN QualifiedNames(name, colon, side.parentNames, location)
                   ELSE {})

\* the <<name, location>> pairs collectDict adds for an Entry
collectDict(entry) ==
    DictOfSide(entry.cursor) \cup DictOfSide(entry.reference)

\* the records writeDict puts: "d:" + name -> the locations of the name
\* (a NUL-separated list in the order of the QSet, kept here as the set)
DictRecords(d) ==
    LET pairs == UNION {collectDict(d[i]) : i \in 1..Len(d)}
        names == {pr[1] : pr \in pairs}
        locs(n) == {pr[2] : pr \in {q \in pairs : q[1] = n}}
        keyOf(n) == <<"d", ":">> \o n
    IN  [k \in {keyOf(n) : n \in names} |->
            locs(CHOOSE n \in names : keyOf(n) = k)]

\* writeDependencies over mData->dependencies: "f:" + path -> the record, a
\* later record overwriting an earlier one of the same path
DependencyRecords(deps) ==
    LET keyOf(i) == <<"f", ":">> \o deps[i].file
        last(k) == CHOOSE i \in 1..Len(deps) :
                       keyOf(i) = k /\ \A j \in 1..Len(deps) : keyOf(j) = k => j <= i
    IN  [k \in {keyOf(i) : i \in 1..Len(deps)} |->
            <<deps[last(k)].arguments, deps[last(k)].lastModified,
              deps[last(k)].dependencies>>]

\* operator<<(QDataStream&, const CollectData::DataEntry&)
SerializedEntry(entry) ==
    <<entry.hasDefinition, entry.cursor, entry.references, entry.references>>

ManifestKey ==
    <<" ">>

\* the record put under " ": the number of entries, then the entries
ManifestRecord(d) ==
    (ManifestKey :> <<Len(d), [i \in 1..Len(d) |-> SerializedEntry(d[i])]>>)

NoDB ==
    [exists |-> FALSE, records |-> EmptyMap]

EmptyDB ==
    [exists |-> TRUE, records |-> EmptyMap]

\* the database writeData leaves when both loops ran: the puts in the
\* code's order, a later put replacing an earlier one of the same key
WrittenDB(d, deps) ==
    [exists |-> TRUE,
     records |-> ManifestRecord(d) @@ DependencyRecords(deps) @@ DictRecords(d)
                 @@ EntryRecords(d)]

\* removeDirectory(path): ok is whether every opendir, stat, unlink and rmdir
\* succeeds.  A failure ends the loop at the entry it happens on; the outcome
\* kept here is the one where that is the first entry, so nothing is removed.
\* writeData ignores the returned int.
removeDirectory(d, ok) ==
    IF ok THEN NoDB ELSE d

\* leveldb::DB::Open with create_if_missing: an existing database is opened
\* as it is, a missing one is created empty
OpenDB(d) ==
    IF d.exists THEN d ELSE EmptyDB

\* the puts of writeData applied to the opened database: a put replaces the
\* record of its key and leaves every other record alone
WriteBatch(opened, d, deps) ==
    [exists |-> TRUE,
     records |-> WrittenDB(d, deps).records @@ opened.records]

----------------------------------------------------------------------------
(* compile() and its dependency records. *)

\* GccArguments()
NoArguments ==
    [input |-> <<>>, raw |-> ""]

\* the jobs the makefile parser may hand to makefileFileReady
Jobs ==
    {[input |-> <<SourceA>>, raw |-> "cc -c a.c"],
     [input |-> <<SourceB>>, raw |-> "cc -DB -c b.c"]}

Inc(included, stack) ==
    [included |-> included, stack |-> stack]

\* what clang_getInclusions reports for an input: one call of the visitor
\* per file, with the stack of the files that include it.  a.c includes a.h
\* through the link l.h, and b.c includes a.c.
InclusionReports(input) ==
    IF input = SourceA
    THEN {{Inc(SourceA, <<>>), Inc(HeaderLink, <<SourceA>>)}}
    ELSE {{Inc(SourceB, <<>>), Inc(SourceA, <<SourceB>>),
           Inc(HeaderPath, <<SourceA, SourceB>>)}}

\* Path::lastModified()
lastModified(p, mt) ==
    mt[p]

\* getInclusions without its loop over the inclusion stack, and only for a
\* file that the input itself includes
InclusionPathsDirect(call) ==
    IF Len(call.stack) # 1 THEN {}
    ELSE {PathResolved(call.included)}

\* the paths one call of getInclusions stores: none for the input itself,
\* else the included file and every file of the stack but the last
InclusionPaths(call) ==
    IF Len(call.stack) = 0 THEN {}
    ELSE {PathResolved(call.included)}
         \cup {PathResolved(call.stack[i]) : i \in 1..(Len(call.stack) - 1)}

\* the dependencies map after clang_getInclusions called getInclusions for
\* every call of the report
getInclusions(report, mt) ==
    [p \in UNION {InclusionPaths(call) : call \in report} |-> lastModified(p, mt)]

\* the Dependencies record compile() appends for a parsed input
NewDependencies(input, arguments, report, mt) ==
    [file |-> input, arguments |-> arguments,
     lastModified |-> lastModified(input, mt),
     dependencies |-> getInclusions(report, mt)]

----------------------------------------------------------------------------
(* updateDB(). *)

FilePrefix ==
    <<"f", ":">>

\* the smallest of a non-empty set of keys
FirstKey(keys) ==
    CHOOSE k \in keys : \A o \in keys : o = k \/ BytesLess(k, o)

\* the body of updateDB's loop for the record at key k: acc holds the dirty
\* map and the Dependencies list so far
ScanRecord(acc, k, value, mt) ==
    LET file == SubSeq(k, 3, Len(k))
        args == value[1]
        stored == value[2]
        deps == value[3]
        dirty1 == IF stored # lastModified(file, mt)
                  THEN (file :> args) @@ acc.dirty
                  ELSE acc.dirty
        changed == {p \in DOMAIN deps :
                        p \notin DOMAIN dirty1 /\ lastModified(p, mt) # deps[p]}
    IN  [dirty |-> dirty1 @@ [p \in changed |-> NoArguments],
         dependencies |->
             Append(acc.dependencies,
                    [file |-> file, arguments |-> args, lastModified |-> stored,
                     dependencies |-> deps])]

RECURSIVE ScanFrom(_, _, _, _)
\* updateDB's loop: the iterator stands before the keys of keys, in order
ScanFrom(keys, records, acc, mt) ==
    IF keys = {} THEN acc
    ELSE LET k == FirstKey(keys)
         IN  IF Left(k, 2) # FilePrefix THEN acc
             ELSE ScanFrom(keys \ {k}, records,
                           ScanRecord(acc, k, records[k], mt), mt)

\* it->Seek("f:"): the keys not before "f:"
SeekKeys(records) ==
    {k \in DOMAIN records : ~BytesLess(k, FilePrefix)}

\* the dirty map and the Dependencies list after updateDB's loop
Scan(records, deps, mt) ==
    ScanFrom(SeekKeys(records), records,
             [dirty |-> EmptyMap, dependencies |-> deps], mt)

----------------------------------------------------------------------------
(* The state machine. *)

\* no keys are being compared
NoComparison ==
    [a |-> NullKey, b |-> NullKey, done |-> FALSE, eq |-> FALSE, lt |-> FALSE,
     gt |-> FALSE]

Init ==
    /\ data = <<>>
    /\ seen = EmptyMap
    /\ dependencies = <<>>
    /\ db = NoDB
    /\ mtime = [f \in Files |-> 1]
    /\ pc = "idle"
    /\ todo = <<>>
    /\ unit = <<>>
    /\ jobArgs = NoArguments
    /\ njobs = 0
    /\ visitResult = "none"
    /\ dirty = EmptyMap
    /\ updateResult = "none"
    /\ reported = FALSE
    /\ compared = NoComparison

\* makefileFileReady: compile(arguments) is entered
StartCompileWithin(job, most) ==
    /\ pc = "idle"
    /\ njobs < most
    /\ pc' = IF job.input = <<>> THEN "idle" ELSE "compile"
    /\ todo' = job.input
    /\ jobArgs' = job
    /\ njobs' = njobs + 1
    /\ UNCHANGED <<data, seen, dependencies, db, mtime, unit, visitResult, dirty,
                   updateResult, reported>>
    /\ UNCHANGED compared

\* makefileFileReady for at most MaxJobs jobs of a run
StartCompile(job) ==
    StartCompileWithin(job, MaxJobs)

\* compile() with a return in the place of the continue: a failed parse ends
\* the job
ParseUnitReturns(ok) ==
    /\ pc = "compile"
    /\ todo # <<>>
    /\ todo' = IF ok THEN Tail(todo) ELSE <<>>
    /\ unit' = IF ok THEN Head(todo) ELSE <<>>
    /\ pc' = IF ok THEN "visiting" ELSE "idle"
    /\ UNCHANGED <<data, seen, dependencies, db, mtime, jobArgs, njobs,
                   visitResult, dirty, updateResult, reported>>
    /\ UNCHANGED compared

\* compile(): clang_parseTranslationUnit of the next input; a failed parse
\* goes on with the input after it
ParseUnit(ok) ==
    /\ pc = "compile"
    /\ todo # <<>>
    /\ todo' = Tail(todo)
    /\ unit' = IF ok THEN Head(todo) ELSE <<>>
    /\ pc' = IF ok THEN "visiting"
             ELSE IF Tail(todo) = <<>> THEN "idle" ELSE "compile"
    /\ UNCHANGED <<data, seen, dependencies, db, mtime, jobArgs, njobs,
                   visitResult, dirty, updateResult, reported>>
    /\ UNCHANGED compared

\* clang_visitChildren calls collectSymbols for a cursor of the unit
Visit(c, definition, reference) ==
    /\ pc = "visiting"
    /\ LET after == collectSymbols(data, seen, c, definition, reference)
       IN  /\ Len(after.data) <= MaxEntries
           /\ \A i \in 1..Len(after.data) :
                  /\ Len(after.data[i].cursor.parentNames) <= MaxParentNames
                  /\ Len(after.data[i].reference.parentNames) <= MaxParentNames
           /\ data' = after.data
           /\ seen' = after.seen
           /\ visitResult' = after.result
    /\ UNCHANGED <<dependencies, db, mtime, pc, todo, unit, jobArgs, njobs, dirty,
                   updateResult, reported>>
    /\ UNCHANGED compared

\* compile(): the traversal of the unit is over, its Dependencies record is
\* appended and filled by clang_getInclusions
EndUnit(report) ==
    /\ pc = "visiting"
    /\ Len(dependencies) < MaxDeps
    /\ dependencies' =
           Append(dependencies, NewDependencies(unit, jobArgs, report, mtime))
    /\ pc' = IF todo = <<>> THEN "idle" ELSE "compile"
    /\ unit' = <<>>
    /\ visitResult' = "none"
    /\ UNCHANGED <<data, seen, db, mtime, todo, jobArgs, njobs, dirty, updateResult,
                   reported>>
    /\ UNCHANGED compared

\* makefileDone: writeData(mDBPath), then the application quits.  removeOk is
\* whether removeDirectory removes the old directory, openOk whether leveldb
\* opens the database, build how Q_ASSERT is compiled.
WriteData(removeOk, openOk, build) ==
    /\ pc = "idle"
    /\ LET pass == PropagatePass(data, seen, 1, build)
           onDisk == removeDirectory(db, removeOk)
           opened == OpenDB(onDisk)
       IN  IF ~openOk
           THEN /\ db' = onDisk
                /\ pc' = "unopened"
                /\ UNCHANGED <<data, reported>>
           ELSE /\ data' = pass.data
                /\ db' = IF pass.outcome = "ok"
                         THEN WriteBatch(opened, pass.data, dependencies)
                         ELSE opened
                /\ pc' = IF pass.outcome = "ok" THEN "done" ELSE pass.outcome
                /\ reported' = (reported \/ pass.outcome = "aborted")
    /\ UNCHANGED <<seen, dependencies, mtime, todo, unit, jobArgs, njobs,
                   visitResult, dirty, updateResult>>
    /\ UNCHANGED compared

\* updateDB(): openOk is whether leveldb opens the database, readOk whether
\* its Get of the manifest succeeds when the record is there
UpdateDB(openOk, readOk) ==
    /\ pc = "idle"
    /\ LET opened == db.exists /\ openOk
           scan == Scan(db.records, dependencies, mtime)
           hasManifest == ManifestKey \in DOMAIN db.records /\ readOk
           count == IF opened /\ hasManifest THEN db.records[ManifestKey][1] ELSE 0
       IN  /\ Len(scan.dependencies) <= MaxDeps
           /\ Len(data) + count <= MaxEntries
           /\ IF ~opened
              THEN /\ updateResult' = "false"
                   /\ UNCHANGED <<data, dependencies, dirty>>
              ELSE /\ dependencies' = scan.dependencies
                   /\ dirty' = scan.dirty
                   /\ IF hasManifest
                      THEN /\ data' = data \o [i \in 1..count |-> NewEntry]
                           /\ updateResult' = "true"
                      ELSE /\ data' = data
                           /\ updateResult' = "false"
    /\ UNCHANGED <<seen, db, mtime, pc, todo, unit, jobArgs, njobs, visitResult,
                   reported>>
    /\ UNCHANGED compared

\* a file of the source tree is modified
Touch(f) ==
    /\ mtime[f] < MaxTime
    /\ mtime' = [mtime EXCEPT ![f] = @ + 1]
    /\ UNCHANGED <<data, seen, dependencies, db, pc, todo, unit, jobArgs, njobs,
                   visitResult, dirty, updateResult, reported>>
    /\ UNCHANGED compared

\* the process has ended and rbuild is started again: RBuild::RBuild()
Restart ==
    /\ pc \in {"done", "unopened", "aborted", "crashed"}
    /\ data' = <<>>
    /\ seen' = EmptyMap
    /\ dependencies' = <<>>
    /\ pc' = "idle"
    /\ todo' = <<>>
    /\ unit' = <<>>
    /\ jobArgs' = NoArguments
    /\ njobs' = 0
    /\ visitResult' = "none"
    /\ dirty' = EmptyMap
    /\ updateResult' = "none"
    /\ reported' = FALSE
    /\ UNCHANGED <<db, mtime>>
    /\ UNCHANGED compared

\* buildDB: the indexing pass of one process over an unchanging source tree
Next ==
    \/ \E job \in Jobs : StartCompile(job)
    \/ \E ok \in BOOLEAN : ParseUnit(ok)
    \/ \E c \in Cursors : \E definition \in DefinitionAnswers(c) :
           \E reference \in ReferencedAnswers(c) : Visit(c, definition, reference)
    \/ \E report \in InclusionReports(unit) : EndUnit(report)
    \/ \E removeOk, openOk \in BOOLEAN : \E build \in {"debug", "release"} :
           WriteData(removeOk, openOk, build)

Spec ==
    Init /\ [][Next]_vars

\* runs of rbuild over a source tree that changes, the units having no
\* cursors: indexing passes, and staleness scans of the database they leave
ScanNext ==
    \/ \E job \in Jobs : StartCompile(job)
    \/ \E ok \in BOOLEAN : ParseUnit(ok)
    \/ \E report \in InclusionReports(unit) : EndUnit(report)
    \/ \E removeOk, openOk \in BOOLEAN : \E build \in {"debug", "release"} :
           WriteData(removeOk, openOk, build)
    \/ \E openOk, readOk \in BOOLEAN : UpdateDB(openOk, readOk)
    \/ \E f \in Files : Touch(f)
    \/ Restart

SpecScan ==
    Init /\ [][ScanNext]_vars

----------------------------------------------------------------------------
(* The staleness scan (SpecScan). *)

\* the Dependencies records the database holds under its "f:" keys
StoredRecords ==
    {[file |-> SubSeq(k, 3, Len(k)), arguments |-> db.records[k][1],
      lastModified |-> db.records[k][2], dependencies |-> db.records[k][3]] :
        k \in {q \in DOMAIN db.records : Len(q) >= 2 /\ Left(q, 2) = FilePrefix}}

\* a step that is a call of updateDB which opens the database and scans it
ScanStep ==
    db.exists /\ UpdateDB(TRUE, TRUE)

\* every time the database recorded is the file's current time, but for
\* the included file h, whose recorded times all differ from its current one
OnlyIncludedFileChanged(h) ==
    /\ \E rec \in StoredRecords : h \in DOMAIN rec.dependencies
    /\ \A rec \in StoredRecords :
           /\ rec.lastModified = mtime[rec.file]
           /\ \A p \in DOMAIN rec.dependencies :
                  (rec.dependencies[p] = mtime[p]) <=> (p # h)

\* C1: a scan run when only the included file a.h changed since the database
\* was written yields a dirty set that is exactly the set of the translation
\* units whose record lists a.h
C1_HeaderChangeDirtiesOwners ==
    [][(ScanStep /\ OnlyIncludedFileChanged(HeaderPath))
         => DOMAIN dirty' = {rec.file : rec \in {r \in StoredRecords :
                                HeaderPath \in DOMAIN r.dependencies}}]_vars

\* C2: after a scan, every translation unit whose own time changed is dirty
\* with the arguments of its own record, and a translation unit whose own time
\* and recorded included-file times are all unchanged is not dirty
C2_OwnFileChange ==
    [][ScanStep
         => \A rec \in StoredRecords :
                /\ rec.lastModified # mtime[rec.file]
                       => /\ rec.file \in DOMAIN dirty'
                          /\ dirty'[rec.file] = rec.arguments
                /\ (/\ rec.lastModified = mtime[rec.file]
                    /\ \A p \in DOMAIN rec.dependencies :
                           rec.dependencies[p] = mtime[p])
                       => rec.file \notin DOMAIN dirty']_vars

----------------------------------------------------------------------------
(* The Entry Store during the visits (Spec). *)

\* the Entry the store holds for the location of cursor c
EntryAt(d, s, c) ==
    d[s[locationKey(CursorKey(c))]]

\* whether the store holds an Entry for the location of cursor c
Visited(s, c) ==
    isValid(CursorKey(c)) /\ locationKey(CursorKey(c)) \in DOMAIN s

\* C3: a visit of a cursor at the location of an Entry that has its
\* definition changes neither the Entry nor the store and creates no Entry, and
\* no visit changes an Entry that has its definition: hasDefinition never goes
\* back to false while cursors are visited
C3_FirstDefinitionWins ==
    /\ [](\A c \in Cursors : \A definition \in DefinitionAnswers(c) :
            \A reference \in ReferencedAnswers(c) :
              (Visited(seen, c) /\ EntryAt(data, seen, c).hasDefinition)
                => LET after == collectSymbols(data, seen, c, definition, reference)
                   IN  after.data = data /\ after.seen = seen)
    /\ [][(pc = "visiting" /\ pc' = "visiting")
            => \A i \in 1..Len(data) :
                   data[i].hasDefinition => (i <= Len(data') /\ data'[i] = data[i])]_vars

\* C3 witness: the Entry of the inclusion directive has its definition, and a
\* later visit has returned
C3_Witness ==
    /\ pc = "visiting"
    /\ visitResult = "recurse"
    /\ Len(data) = 1
    /\ data[1].hasDefinition
    /\ data[1].cursor.cursor = CursorKey(cInclude)

\* whether the front end's answer puts the definition of c at another place
DeclarationShaped(c, definition) ==
    cursorDefinition(definition)
    /\ ~equalLocation(CursorKey(c), CursorKey(definition))

\* C4 as claimed: a second visit of a location, by a cursor whose key is a
\* definition, leaves one Entry for the location, whose hasDefinition is true
\* and whose cursor and reference are those of the second visit
C4_SecondDefiningVisitDefines ==
    \A c \in Cursors : \A definition \in DefinitionAnswers(c) :
      \A reference \in ReferencedAnswers(c) :
        (Visited(seen, c) /\ ~EntryAt(data, seen, c).hasDefinition
         /\ CursorKey(c).def)
          => LET after == collectSymbols(data, seen, c, definition, reference)
                 e2 == EntryAt(after.data, after.seen, c)
             IN  /\ Len(after.data) = Len(data)
                 /\ e2.hasDefinition
                 /\ e2.cursor.cursor = CursorKey(c)
                 /\ e2.reference.cursor =
                        IF DeclarationShaped(c, definition)
                        THEN CursorKey(definition) ELSE CursorKey(reference)

\* C4 as amended: a second visit of a location, by a cursor whose key is a
\* definition and which is its own definition, leaves one Entry for the
\* location and leaves hasDefinition false; the Entry's cursor and reference
\* become those of the second visit if its reference was unset or equal to its
\* cursor and the referenced cursor is valid, and else the Entry stays as it was
C4_SecondDefiningVisitMerges ==
    \A c \in Cursors : \A definition \in DefinitionAnswers(c) :
      \A reference \in ReferencedAnswers(c) :
        (Visited(seen, c) /\ ~EntryAt(data, seen, c).hasDefinition
         /\ CursorKey(c).def /\ ~DeclarationShaped(c, definition)
         /\ CursorKey(c).kind # CXCursor_InclusionDirective)
          => LET after == collectSymbols(data, seen, c, definition, reference)
                 e1 == EntryAt(data, seen, c)
                 e2 == EntryAt(after.data, after.seen, c)
             IN  /\ Len(after.data) = Len(data)
                 /\ after.seen = seen
                 /\ ~e2.hasDefinition
                 /\ IF /\ \/ isNull(e1.reference.cursor)
                          \/ KeyEq(e1.reference.cursor, e1.cursor.cursor)
                       /\ isValid(CursorKey(reference))
                    THEN /\ e2.cursor.cursor = CursorKey(c)
                         /\ e2.reference.cursor = CursorKey(reference)
                    ELSE e2 = e1

\* C4 witness: the definition of f was visited, which left an Entry at its
\* location that has no definition and that a second visit of it merges into
C4_Witness ==
    /\ pc = "visiting"
    /\ visitResult = "recurse"
    /\ Visited(seen, cFnDef)
    /\ EntryAt(data, seen, cFnDef).cursor.cursor = CursorKey(cFnDef)
    /\ EntryAt(data, seen, cFnDef).reference.cursor = CursorKey(cFnDef)
    /\ ~EntryAt(data, seen, cFnDef).hasDefinition

\* the store after the declaration of f was visited first, the front end
\* answering that its definition is the definition of f
AfterDeclaration ==
    collectSymbols(<<>>, EmptyMap, cFnDecl, cFnDef, cFnDecl)

\* a step that visits the definition of f right after that
DefinitionVisitedNext ==
    /\ pc = "visiting" /\ pc' = "visiting"
    /\ data = AfterDeclaration.data /\ seen = AfterDeclaration.seen
    /\ data' = collectSymbols(data, seen, cFnDef, cFnDef, cFnDef).data
    /\ seen' = collectSymbols(data, seen, cFnDef, cFnDef, cFnDef).seen

\* C5 as claimed: void f(); void f() {} leaves exactly one Entry, which has
\* its definition and whose reference is its own cursor
C5_ForwardDeclarationOneEntry ==
    [][DefinitionVisitedNext
         => /\ Len(data') = 1
            /\ data'[1].hasDefinition
            /\ KeyEq(data'[1].reference.cursor, data'[1].cursor.cursor)]_vars

\* C5 as amended: void f(); void f() {} leaves two Entries: the one at the
\* declaration has its definition and refers to the definition's key, the one
\* at the definition refers to its own cursor and has hasDefinition false
C5_ForwardDeclarationTwoEntries ==
    [][DefinitionVisitedNext
         => /\ Len(data') = 2
            /\ DOMAIN seen' = {locationKey(CursorKey(cFnDecl)),
                               locationKey(CursorKey(cFnDef))}
            /\ EntryAt(data', seen', cFnDecl).hasDefinition
            /\ EntryAt(data', seen', cFnDecl).cursor.cursor = CursorKey(cFnDecl)
            /\ EntryAt(data', seen', cFnDecl).reference.cursor = CursorKey(cFnDef)
            /\ ~EntryAt(data', seen', cFnDef).hasDefinition
            /\ EntryAt(data', seen', cFnDef).cursor.cursor = CursorKey(cFnDef)
            /\ EntryAt(data', seen', cFnDef).reference.cursor = CursorKey(cFnDef)]_vars

\* C5 witness: the store after the declaration and then the definition of f
C5_Witness ==
    /\ pc = "visiting"
    /\ Len(data) = 2
    /\ data[1].cursor.cursor = CursorKey(cFnDecl)
    /\ data[1].reference.cursor = CursorKey(cFnDef)
    /\ data[1].hasDefinition
    /\ data[2].cursor.cursor = CursorKey(cFnDef)
    /\ data[2].reference.cursor = CursorKey(cFnDef)

----------------------------------------------------------------------------
(* The write pass (Spec). *)

\* the write pass ran both its loops and put its records
Written ==
    pc = "done" /\ db.exists

\* the location string of the Entry at index i
LocationOf(d, i) ==
    cursorKeyToString(d[i].cursor.cursor)

\* the index of the Entry that the reference of the Entry at i names, or 0
TargetOf(d, s, i) ==
    SeenValue(s, locationKey(d[i].reference.cursor))

\* C6: after the write pass no Entry's backReferences holds the Entry's own
\* location, and the location of an Entry whose reference names the Entry
\* itself is in no backReferences set
C6_NoSelfBackReference ==
    Written
      => \A i \in 1..Len(data) :
             /\ LocationOf(data, i) \notin data[i].references
             /\ TargetOf(data, seen, i) = i
                    => \A j \in 1..Len(data) :
                           LocationOf(data, i) \notin data[j].references

\* C6 witness: the pass wrote a store that holds an Entry whose reference is
\* its own cursor and that other Entries refer to
C6_Witness ==
    /\ Written
    /\ \E i \in 1..Len(data) :
           /\ isValid(data[i].cursor.cursor)
           /\ TargetOf(data, seen, i) = i
           /\ data[i].references # {}

\* C7: after the write pass, the location of every Entry that is no method,
\* constructor or destructor and whose reference names another Entry is in
\* that Entry's backReferences, and every member of a backReferences set is the
\* location of such an Entry
C7_BackReferences ==
    Written
      => /\ \A i \in 1..Len(data) :
                (/\ ~isMethodKind(data[i].cursor.cursor.kind)
                 /\ TargetOf(data, seen, i) \notin {0, i})
                  => LocationOf(data, i) \in data[TargetOf(data, seen, i)].references
         /\ \A r \in 1..Len(data) : \A m \in data[r].references :
                \E i \in 1..Len(data) :
                    /\ i # r
                    /\ ~isMethodKind(data[i].cursor.cursor.kind)
                    /\ LocationOf(data, i) = m
                    /\ TargetOf(data, seen, i) = r

\* C7 witness: the pass wrote a store in which the declaration of f refers to
\* the Entry of the definition of f
C7_Witness ==
    /\ Written
    /\ Visited(seen, cFnDecl) /\ Visited(seen, cFnDef)
    /\ EntryAt(data, seen, cFnDecl).reference.cursor = CursorKey(cFnDef)
    /\ EntryAt(data, seen, cFnDef).references # {}

\* C8: when the write pass has run, the Entry that the reference of a method,
\* constructor or destructor declaration named before the pass has the
\* declaration's cursor, key and container names, as its reference, and no
\* backReferences set holds the location of a method, constructor or destructor
C8_DeclarationThreading ==
    [][(pc = "idle" /\ Written')
         => /\ \A i \in 1..Len(data) :
                   isThreaded(data, i)
                     => /\ TargetOf(data, seen, i) # 0
                        /\ data'[TargetOf(data, seen, i)].reference = data[i].cursor
            /\ \A i \in 1..Len(data') :
                   isMethodKind(data'[i].cursor.cursor.kind)
                     => \A j \in 1..Len(data') :
                            LocationOf(data', i) \notin data'[j].references]_vars

\* C8 witness: the pass wrote a store in which the definition of Foo::bar
\* refers to its declaration
C8_Witness ==
    /\ Written
    /\ Visited(seen, cBarDecl) /\ Visited(seen, cBarDef)
    /\ EntryAt(data, seen, cBarDecl).reference.cursor = CursorKey(cBarDef)
    /\ EntryAt(data, seen, cBarDef).reference = EntryAt(data, seen, cBarDecl).cursor

\* the store holds a declaration that the write pass threads and whose
\* reference names no Entry or the declaration's own Entry
MissingTarget ==
    \E i \in 1..Len(data) :
        isThreaded(data, i) /\ ~AssertDef(TargetOf(data, seen, i), i)

\* C9: a write pass that opens the database and meets a declaration whose
\* target is missing reports it and runs to its end, writing the entries, the
\* dictionary, the dependency records and the manifest
C9_MissingTargetReported ==
    [][(pc = "idle" /\ pc' # "idle" /\ db'.exists /\ MissingTarget)
         => /\ pc' = "done"
            /\ reported'
            /\ db' = WrittenDB(data', dependencies)]_vars

\* C10: when no unit is being visited, every method, constructor or
\* destructor declaration that the write pass threads has an Entry other than
\* itself at its reference's locationKey
C10_AssertionHolds ==
    pc = "idle" => ~MissingTarget

----------------------------------------------------------------------------
(* The dictionary of a written store (SpecDict). *)

NameNs == <<"n">>

\* the lists of container names addCursor can leave on a side: the names of
\* at most MaxChain enclosing classes, structs and namespaces, innermost first
Chains ==
    UNION {[1..n -> {NameFoo, NameNs}] : n \in 0..MaxChain}

\* the sides an Entry can have at one place of a file: a key of a kind, with
\* a display name that has a signature or has none, and container names
SidesAt(file, line, col, off) ==
    {[cursor |-> [kind |-> kind, fileName |-> file, symbolName |-> name,
                  line |-> line, col |-> col, off |-> off, def |-> def],
      parentNames |-> chain] :
        kind \in {CXCursor_CXXMethod, CXCursor_ClassDecl, CXCursor_FunctionDecl,
                  CXCursor_DeclRefExpr},
        name \in {NameBar, NameCall},
        def \in BOOLEAN,
        chain \in Chains}

\* a store of one Entry as the visits of one unit leave it: its cursor at
\* /a.h:1:18 and its reference unset, the cursor itself or at /a.c:2:11
InitDict ==
    /\ \E cursor \in SidesAt(HeaderPath, 1, 18, 17) :
         \E reference \in SidesAt(SourceA, 2, 11, 26) \cup {NullData, cursor} :
           /\ data = <<[NewEntry EXCEPT !.cursor = cursor, !.reference = reference]>>
           /\ seen = (locationKey(cursor.cursor) :> 1)
    /\ dependencies = <<>>
    /\ db = NoDB
    /\ mtime = [f \in Files |-> 1]
    /\ pc = "idle"
    /\ todo = <<>>
    /\ unit = <<>>
    /\ jobArgs = NoArguments
    /\ njobs = 0
    /\ visitResult = "none"
    /\ dirty = EmptyMap
    /\ updateResult = "none"
    /\ reported = FALSE
    /\ compared = NoComparison

\* makefileDone over such a store
DictNext ==
    \E removeOk, openOk \in BOOLEAN : \E build \in {"debug", "release"} :
        WriteData(removeOk, openOk, build)

SpecDict ==
    InitDict /\ [][DictNext]_vars

RECURSIVE BareName(_)
\* a display name without its signature: what precedes the first "("
BareName(name) ==
    IF name = <<>> \/ Head(name) = "(" THEN <<>>
    ELSE <<Head(name)>> \o BareName(Tail(name))

RECURSIVE Qualified(_, _, _)
\* Ck::..::C1::name for the container names chain = <<C1, .., Cn>>
Qualified(chain, k, name) ==
    IF k = 0 THEN name
    ELSE chain[k] \o <<":", ":">> \o Qualified(chain, k - 1, name)

\* the locations the written database lists for a name
Lookup(name) ==
    IF (<<"d", ":">> \o name) \in DOMAIN db.records
    THEN db.records[<<"d", ":">> \o name] ELSE {}

\* the sides of the Entries whose key is valid and of a container-bearing kind
ContainerSides ==
    {side \in UNION {{data[i].cursor, data[i].reference} : i \in 1..Len(data)} :
        /\ isValid(side.cursor)
        /\ side.cursor.kind \in {CXCursor_Namespace, CXCursor_ClassDecl,
                                 CXCursor_StructDecl, CXCursor_FieldDecl,
                                 CXCursor_CXXMethod, CXCursor_Constructor,
                                 CXCursor_Destructor}}

\* C11: in a written database, for every Entry side with a valid key of a
\* container-bearing kind, name N+suffix and container names C1 .. Cn, each of
\* N+suffix, N, Ck::..::C1::N+suffix and Ck::..::C1::N (k in 1..n) is listed
\* with the side's location string file:line:col
C11_DictionaryNames ==
    Written
      => \A side \in ContainerSides :
           \A k \in 0..Len(side.parentNames) :
             \A name \in {side.cursor.symbolName, BareName(side.cursor.symbolName)} :
               cursorKeyToString(side.cursor)
                   \in Lookup(Qualified(side.parentNames, k, name))

\* C11 witness: the written store holds method bar(int) with the container
\* names Foo and n, and Foo::bar is listed
C11_Witness ==
    /\ Written
    /\ Len(data) = 1
    /\ data[1].cursor.cursor.kind = CXCursor_CXXMethod
    /\ data[1].cursor.cursor.symbolName = NameBar
    /\ data[1].cursor.parentNames = <<NameFoo, NameNs>>
    /\ Lookup(NameFoo \o <<":", ":", "b", "a", "r">>) # {}

----------------------------------------------------------------------------
(* Comparisons of keys (SpecKeys). *)

\* the keys that are compared: valid ones, and ones without a file name or
\* without a symbol name
DrawnKeys ==
    {[kind |-> kind, fileName |-> file, symbolName |-> name, line |-> line,
      col |-> 1, off |-> off, def |-> def] :
        kind \in {CXCursor_FunctionDecl, CXCursor_CXXMethod},
        file \in {<<>>, SourceA, SourceB},
        name \in {<<>>, NameCall, NameFn},
        line \in {1, 2},
        off \in 0..MaxOff,
        def \in BOOLEAN}

\* two keys are about to be compared
InitKeys ==
    /\ \E a \in DrawnKeys : \E b \in DrawnKeys :
           compared = [NoComparison EXCEPT !.a = a, !.b = b]
    /\ data = <<>>
    /\ seen = EmptyMap
    /\ dependencies = <<>>
    /\ db = NoDB
    /\ mtime = [f \in Files |-> 1]
    /\ pc = "idle"
    /\ todo = <<>>
    /\ unit = <<>>
    /\ jobArgs = NoArguments
    /\ njobs = 0
    /\ visitResult = "none"
    /\ dirty = EmptyMap
    /\ updateResult = "none"
    /\ reported = FALSE

\* a == b, a < b and b < a are evaluated
Compare ==
    /\ ~compared.done
    /\ compared' = [compared EXCEPT !.done = TRUE,
                                    !.eq = KeyEq(compared.a, compared.b),
                                    !.lt = KeyLess(compared.a, compared.b),
                                    !.gt = KeyLess(compared.b, compared.a)]
    /\ UNCHANGED <<data, seen, dependencies, db, mtime, pc, todo, unit, jobArgs,
                   njobs, visitResult, dirty, updateResult, reported>>

SpecKeys ==
    InitKeys /\ [][Compare]_vars

\* the comparison has been made
Compared ==
    compared.done

\* kind, byte offset, file name and symbol name of two keys all match
SameIdentity(a, b) ==
    <<a.kind, a.off, a.fileName, a.symbolName>>
        = <<b.kind, b.off, b.fileName, b.symbolName>>

\* C12: for valid keys a and b, a == b holds exactly when kind, byte offset,
\* file name and symbol name match; a valid key and an invalid key are never
\* equal; and == is reflexive, symmetric and transitive over all keys
C12_KeyEquality ==
    Compared
      => LET a == compared.a
             b == compared.b
         IN  /\ (isValid(a) /\ isValid(b)) => (compared.eq <=> SameIdentity(a, b))
             /\ (isValid(a) # isValid(b)) => ~compared.eq
             /\ KeyEq(a, a)
             /\ compared.eq <=> KeyEq(b, a)
             /\ \A c \in DrawnKeys : (compared.eq /\ KeyEq(b, c)) => KeyEq(a, c)

\* C12 witness: two valid keys that differ in line and isDefinition only were
\* compared and found equal
C12_Witness ==
    /\ Compared
    /\ isValid(compared.a) /\ isValid(compared.b)
    /\ compared.a.line # compared.b.line
    /\ compared.a.def # compared.b.def
    /\ compared.eq

\* a sorts before b by file name, then byte offset, then symbol name, then kind
SortsBefore(a, b) ==
    \/ BytesLess(a.fileName, b.fileName)
    \/ /\ a.fileName = b.fileName
       /\ \/ a.off < b.off
          \/ /\ a.off = b.off
             /\ \/ BytesLess(a.symbolName, b.symbolName)
                \/ /\ a.symbolName = b.symbolName
                   /\ a.kind < b.kind

\* C13: over valid keys, a < b compares file name, then byte offset, then
\* symbol name, then kind; exactly one of a < b, b < a and a == b holds; < is
\* transitive; and an invalid key is < every valid key while no valid key is <
\* an invalid one
C13_KeyOrdering ==
    Compared
      => LET a == compared.a
             b == compared.b
         IN  /\ (isValid(a) /\ isValid(b))
                  => /\ compared.lt <=> SortsBefore(a, b)
                     /\ ~(compared.lt /\ compared.gt)
                     /\ ~(compared.lt /\ compared.eq)
                     /\ ~(compared.gt /\ compared.eq)
                     /\ compared.lt \/ compared.gt \/ compared.eq
                     /\ \A c \in DrawnKeys :
                            (isValid(c) /\ compared.lt /\ KeyLess(b, c))
                              => KeyLess(a, c)
             /\ (~isValid(a) /\ isValid(b)) => (compared.lt /\ ~compared.gt)

\* C13 witness: two valid keys of one file were compared, the first with the
\* smaller offset and the name that sorts later, and the first is the smaller
C13_Witness ==
    /\ Compared
    /\ isValid(compared.a) /\ isValid(compared.b)
    /\ compared.a.fileName = compared.b.fileName
    /\ compared.a.off < compared.b.off
    /\ BytesLess(compared.b.symbolName, compared.a.symbolName)
    /\ compared.lt

----------------------------------------------------------------------------
(* Total replacement by the write pass (SpecScan). *)

\* C14: a write pass that runs to its end leaves a database that holds the
\* records put from the in-memory store of that pass and no other record: no
\* "f:", "d:", bare-key or manifest record of the database it found survives
C14_TotalReplacement ==
    [][(pc = "idle" /\ pc' = "done") => db' = WrittenDB(data', dependencies)]_vars

----------------------------------------------------------------------------
(* Entries without a valid key in the written database (Spec). *)

\* the indexes of the Entries whose cursor key never became valid
InvalidEntries ==
    {i \in 1..Len(data) : ~isValid(data[i].cursor.cursor)}

\* the manifest of the written database: <<entryCount, serialized entries>>
Manifest ==
    db.records[ManifestKey]

\* C15: in a written database an Entry whose cursor key never became valid
\* has no bare-key record and no location under a "d:" key, is not counted
\* in the manifest's entryCount and is not among the manifest's serialized
\* entries
C15_InvalidEntriesDropped ==
    Written
      => /\ \A i \in InvalidEntries :
              /\ LocationOf(data, i) \notin DOMAIN db.records
              /\ \A k \in DOMAIN db.records :
                     (Len(k) >= 2 /\ k[1] = "d" /\ k[2] = ":")
                         => LocationOf(data, i) \notin db.records[k]
         /\ Manifest[1] = Len(data) - Cardinality(InvalidEntries)
         /\ \A j \in 1..Len(Manifest[2]) : isValid(Manifest[2][j][2].cursor)

----------------------------------------------------------------------------
(* Cursors without a valid key (Spec). *)

\* C16: while a unit is visited, the visit of a cursor whose key is invalid
\* (no file name or no symbol name) leaves data and seen as they are and
\* answers "recurse", and the visit of any cursor answers "recurse" or
\* "continue", never "break"
C16_InvalidCursorsSkipped ==
    /\ visitResult \in {"none", "recurse", "continue"}
    /\ pc = "visiting"
         => \A c \in Cursors : \A definition \in DefinitionAnswers(c) :
              \A reference \in ReferencedAnswers(c) :
                LET after == collectSymbols(data, seen, c, definition, reference)
                IN  /\ after.result \in {"recurse", "continue"}
                    /\ ~isValid(CursorKey(c))
                         => /\ after.data = data
                            /\ after.seen = seen
                            /\ after.result = "recurse"

\* C16 witness: the first cursor visited in a unit had an invalid key: the
\* visitor answered "recurse" and the store is still empty
C16_Witness ==
    /\ pc = "visiting"
    /\ visitResult = "recurse"
    /\ data = <<>>
    /\ seen = EmptyMap
    /\ \E c \in Cursors : CursorKey(c).fileName = <<>>
    /\ \E c \in Cursors :
           CursorKey(c).fileName # <<>> /\ CursorKey(c).symbolName = <<>>

----------------------------------------------------------------------------
(* Jobs and their inputs (SpecParse). *)

MaxParseJobs == 2

\* a job whose command line names two inputs
TwoInputs ==
    [input |-> <<SourceA, SourceB>>, raw |-> "cc -c a.c b.c"]

\* the cursors the units of these jobs hold: void f(); and void f() {}
ParseCursors ==
    {cFnDecl, cFnDef}

\* the index pass of a makefile of up to MaxParseJobs jobs, before the
\* database is written
ParseNext ==
    \/ \E job \in Jobs \cup {TwoInputs} : StartCompileWithin(job, MaxParseJobs)
    \/ \E ok \in BOOLEAN : ParseUnit(ok)
    \/ \E c \in ParseCursors : \E definition \in DefinitionAnswers(c) :
           \E reference \in ReferencedAnswers(c) : Visit(c, definition, reference)
    \/ \E report \in InclusionReports(unit) : EndUnit(report)

SpecParse ==
    Init /\ [][ParseNext]_vars

\* C17: when the front end produces no translation unit for an input, the
\* step adds no Entry and no Dependencies record, leaves the store, the
\* records collected so far and the database as they were, and goes on: to
\* the next input of the job, or, after the last, to where the next job starts
C17_ParseFailureIsolated ==
    [][(pc = "compile" /\ pc' # "visiting")
         => /\ data' = data
            /\ seen' = seen
            /\ dependencies' = dependencies
            /\ db' = db
            /\ njobs' = njobs
            /\ todo' = Tail(todo)
            /\ pc' = IF Tail(todo) = <<>> THEN "idle" ELSE "compile"]_vars

\* C17 witness: the first input of a two-input job failed to parse, its
\* second input was parsed and has its record, and the job after it was
\* compiled as well
C17_Witness ==
    /\ njobs = 2
    /\ pc = "idle"
    /\ data # <<>>
    /\ Len(dependencies) = 2
    /\ dependencies[1].file = SourceB
    /\ dependencies[1].arguments = TwoInputs
    /\ dependencies[2].file = SourceA
    /\ dependencies[2].arguments # TwoInputs

----------------------------------------------------------------------------
(* The Dependencies record of a parsed input (SpecScan). *)

\* the files a report names as included, and the files of its stacks
IncludedFiles(report) ==
    {PathResolved(call.included) : call \in {x \in report : Len(x.stack) > 0}}

StackFiles(report) ==
    UNION {{PathResolved(call.stack[i]) : i \in 1..Len(call.stack)} : call \in report}

\* C18: the step that ends the compile of a parsed input appends exactly one
\* Dependencies record: its file is the input, its lastModified the input's
\* modification time, and its dependencies map holds every file the front
\* end reported as included, directly or through other files, no file that
\* is neither such a file nor in a reported stack, and for each file its
\* modification time at that step
C18_DependencyCollection ==
    [][(pc = "visiting" /\ pc' # "visiting")
         => \E report \in InclusionReports(unit) :
              \E r \in {dependencies'[Len(dependencies')]} :
                /\ dependencies' = Append(dependencies, r)
                /\ r.file = unit
                /\ r.arguments = jobArgs
                /\ r.lastModified = mtime[unit]
                /\ IncludedFiles(report) \subseteq DOMAIN r.dependencies
                /\ DOMAIN r.dependencies
                       \subseteq IncludedFiles(report) \cup StackFiles(report)
                /\ \A p \in DOMAIN r.dependencies : r.dependencies[p] = mtime[p]]_vars

\* C18 witness: b.c was compiled after a.h was touched: its record holds a.c,
\* which it includes, and a.h, which a.c includes, with a.h's new time
C18_Witness ==
    /\ pc = "idle"
    /\ Len(dependencies) = 1
    /\ dependencies[1].file = SourceB
    /\ dependencies[1].lastModified = 1
    /\ DOMAIN dependencies[1].dependencies = {SourceA, HeaderPath}
    /\ dependencies[1].dependencies[SourceA] = 1
    /\ dependencies[1].dependencies[HeaderPath] = 2

----------------------------------------------------------------------------
(* Visits of inclusion directives and of declarations (Spec). *)

\* the Entry at the location of cursor c has its definition
Defined(d, s, c) ==
    Visited(s, c) /\ EntryAt(d, s, c).hasDefinition

EntryBefore(d, s, c) ==
    IF Visited(s, c) THEN EntryAt(d, s, c) ELSE NewEntry

\* the visit of c is declaration-shaped: c has a valid key and is no
\* inclusion directive, its Entry is not yet defined, and the front end
\* answers a definition at another location than c's
DefinitionElsewhere(d, s, c, definition) ==
    /\ isValid(CursorKey(c))
    /\ CursorKey(c).kind # CXCursor_InclusionDirective
    /\ ~Defined(d, s, c)
    /\ cursorDefinition(definition)
    /\ ~equalLocation(CursorKey(c), CursorKey(definition))

\* C20 as stated: a declaration-shaped visit sets the Entry's reference to the
\* definition's key, and sets hasDefinition unless the definition cursor is a
\* call expression, in which case hasDefinition stays as it was
C20_DefinitionNotACall ==
    pc = "visiting"
      => \A c \in Cursors : \A definition \in DefinitionAnswers(c) :
           DefinitionElsewhere(data, seen, c, definition)
             => \A reference \in ReferencedAnswers(c) :
                  LET after == collectSymbols(data, seen, c, definition, reference)
                      entry == EntryAt(after.data, after.seen, c)
                  IN  /\ entry.reference.cursor = CursorKey(definition)
                      /\ entry.hasDefinition
                           = IF CursorKey(definition).kind = CXCursor_CallExpr
                             THEN EntryBefore(data, seen, c).hasDefinition
                             ELSE TRUE

\* C20: a declaration-shaped visit sets the Entry's reference to the
\* definition's key when that key is valid and leaves the reference as it was
\* when it is not, and sets hasDefinition unless the visited cursor is a call
\* expression, in which case hasDefinition stays as it was
C20_VisitedNotACall ==
    pc = "visiting"
      => \A c \in Cursors : \A definition \in DefinitionAnswers(c) :
           DefinitionElsewhere(data, seen, c, definition)
             => \A reference \in ReferencedAnswers(c) :
                  LET after == collectSymbols(data, seen, c, definition, reference)
                      entry == EntryAt(after.data, after.seen, c)
                      before == EntryBefore(data, seen, c)
                  IN  /\ entry.reference.cursor
                           = IF isValid(CursorKey(definition))
                             THEN CursorKey(definition)
                             ELSE before.reference.cursor
                      /\ entry.hasDefinition
                           = IF CursorKey(c).kind = CXCursor_CallExpr
                             THEN before.hasDefinition
                             ELSE TRUE

\* C20 witness: the call f() at /a.c:4:12 was visited with the definition of
\* f as the front end's answer: its Entry refers to the definition and is
\* not defined
C20_Witness ==
    /\ pc = "visiting"
    /\ visitResult = "recurse"
    /\ \E i \in 1..Len(data) :
           /\ data[i].cursor.cursor = CursorKey(cCall)
           /\ data[i].reference.cursor = CursorKey(cFnDef)
           /\ ~data[i].hasDefinition

----------------------------------------------------------------------------
(* Keys of macros and variables (SpecDecl). *)

\* the cursors of a unit that defines a macro and declares and defines a
\* variable next to a function
DeclCursors ==
    {cMacro, cVarDecl, cVarDef, cFnDecl, cFnDef}

\* the index pass over such a unit
DeclNext ==
    \/ \E job \in Jobs : StartCompile(job)
    \/ \E ok \in BOOLEAN : ParseUnit(ok)
    \/ \E c \in DeclCursors : \E definition \in DefinitionAnswers(c) :
           \E reference \in ReferencedAnswers(c) : Visit(c, definition, reference)
    \/ \E report \in InclusionReports(unit) : EndUnit(report)

SpecDecl ==
    Init /\ [][DeclNext]_vars

\* the valid keys the store holds, as cursor or as reference of an Entry
StoredKeys ==
    {k \in UNION {{data[i].cursor.cursor, data[i].reference.cursor} :
                     i \in 1..Len(data)} : isValid(k)}

\* the cursors a key was built from
CursorsOf(k) ==
    {c \in DOMAIN Cursor :
        /\ Cursor[c].kind = k.kind
        /\ PathResolved(Cursor[c].file) = k.fileName
        /\ Cursor[c].off = k.off}

\* C21: every key in the store that was built from a macro definition has
\* isDefinition true, every key built from a variable declaration has
\* isDefinition false whatever the front end answers, and a key of any other
\* kind has the front end's is-definition answer for its cursor
C21_IsDefinitionClassification ==
    \A k \in StoredKeys :
        /\ k.kind = CXCursor_MacroDefinition => k.def
        /\ k.kind = CXCursor_VarDecl => ~k.def
        /\ k.kind \notin {CXCursor_MacroDefinition, CXCursor_VarDecl}
             => \A c \in CursorsOf(k) : k.def = Cursor[c].isDef

----------------------------------------------------------------------------
(* Reference-shaped visits (Spec). *)

\* the visit of c is reference-shaped: c has a valid key and is no inclusion
\* directive, and the front end answers no definition or one at c's location
ReferenceShaped(c, definition) ==
    /\ isValid(CursorKey(c))
    /\ CursorKey(c).kind # CXCursor_InclusionDirective
    /\ \/ ~cursorDefinition(definition)
       \/ equalLocation(CursorKey(c), CursorKey(definition))

\* the Entry at c's location has a valid reference that is not its cursor
RefersElsewhere(d, s, c) ==
    /\ Visited(s, c)
    /\ isValid(EntryAt(d, s, c).reference.cursor)
    /\ ~KeyEq(EntryAt(d, s, c).reference.cursor, EntryAt(d, s, c).cursor.cursor)

\* C22: while a unit is visited, a reference-shaped visit at a location whose
\* Entry has a valid reference other than its own cursor leaves the Entry's
\* cursor, reference and hasDefinition, and the rest of the store, as they were
C22_ReferenceGuarded ==
    pc = "visiting"
      => \A c \in Cursors : \A definition \in DefinitionAnswers(c) :
           (ReferenceShaped(c, definition) /\ RefersElsewhere(data, seen, c))
             => \A reference \in ReferencedAnswers(c) :
                  LET after == collectSymbols(data, seen, c, definition, reference)
                  IN  /\ after.data = data
                      /\ after.seen = seen

\* C22 witness: the Entry of the call f() at /a.c:4:12 refers to the
\* declaration of f and is not defined, and the reference expression at the
\* same location, for which the front end answers no definition, is visited
\* next
C22_Witness ==
    /\ pc = "visiting"
    /\ visitResult = "recurse"
    /\ RefersElsewhere(data, seen, cDeclRef)
    /\ ReferenceShaped(cDeclRef, NullCursor)
    /\ NullCursor \in DefinitionAnswers(cDeclRef)
    /\ EntryAt(data, seen, cDeclRef).cursor.cursor = CursorKey(cCall)
    /\ EntryAt(data, seen, cDeclRef).reference.cursor = CursorKey(cFnDecl)
    /\ ~EntryAt(data, seen, cDeclRef).hasDefinition

----------------------------------------------------------------------------
(* Kinds in the dictionary and in references (Spec). *)

\* the kind is a reference or an expression, as the front end groups kinds
isRefOrExpr(kind) ==
    \/ (kind >= CXCursor_FirstRef /\ kind <= CXCursor_LastRef)
    \/ (kind >= CXCursor_FirstExpr /\ kind <= CXCursor_LastExpr)

\* the sides of the Entries of the store
Sides ==
    UNION {{data[i].cursor, data[i].reference} : i \in 1..Len(data)}

\* the "d:" keys of the database
DictKeys ==
    {k \in DOMAIN db.records : Len(k) >= 2 /\ k[1] = "d" /\ k[2] = ":"}

\* C23: every location the written dictionary lists is the location of a
\* side with a valid key whose kind is neither a reference nor an expression,
\* so no location comes from a call expression or another reference or
\* expression; and at no time is the reference of an Entry a call expression
C23_NoExpressionTargets ==
    /\ \A i \in 1..Len(data) :
           data[i].reference.cursor.kind # CXCursor_CallExpr
    /\ Written
         => \A k \in DictKeys : \A loc \in db.records[k] :
              \E side \in Sides :
                  /\ isValid(side.cursor)
                  /\ ~isRefOrExpr(side.cursor.kind)
                  /\ cursorKeyToString(side.cursor) = loc

\* C23 witness: the written store holds the call f() at /a.c:4:12 referring
\* to the declaration of f; f is listed with the declaration's location and
\* not with the call's
C23_Witness ==
    /\ Written
    /\ \E i \in 1..Len(data) :
           /\ data[i].cursor.cursor = CursorKey(cCall)
           /\ data[i].reference.cursor = CursorKey(cFnDecl)
    /\ cursorKeyToString(CursorKey(cFnDecl)) \in Lookup(NameCall)
    /\ cursorKeyToString(CursorKey(cCall)) \notin Lookup(NameCall)

----------------------------------------------------------------------------
(* The store over runs that scan the database they wrote (SpecRerun). *)

\* runs of rbuild that index units holding void f(); and void f() {}, write
\* the database, and start again with a staleness scan of it
RerunNext ==
    \/ \E job \in Jobs : StartCompile(job)
    \/ \E ok \in BOOLEAN : ParseUnit(ok)
    \/ \E c \in ParseCursors : \E definition \in DefinitionAnswers(c) :
           \E reference \in ReferencedAnswers(c) : Visit(c, definition, reference)
    \/ \E report \in InclusionReports(unit) : EndUnit(report)
    \/ \E removeOk, openOk \in BOOLEAN : \E build \in {"debug", "release"} :
           WriteData(removeOk, openOk, build)
    \/ \E openOk, readOk \in BOOLEAN : UpdateDB(openOk, readOk)
    \/ Restart

SpecRerun ==
    Init /\ [][RerunNext]_vars

\* C24: at all times the list data and the index seen hold the same Entries:
\* every index of seen is one of data, every listed Entry is indexed under
\* exactly one locationKey, and every Entry with a valid cursor is indexed
\* under the locationKey of that cursor
C24_StoreIndexed ==
    /\ \A k \in DOMAIN seen : seen[k] \in 1..Len(data)
    /\ \A i \in 1..Len(data) :
           /\ Cardinality({k \in DOMAIN seen : seen[k] = i}) = 1
           /\ isValid(data[i].cursor.cursor)
                => /\ locationKey(data[i].cursor.cursor) \in DOMAIN seen
                   /\ seen[locationKey(data[i].cursor.cursor)] = i

----------------------------------------------------------------------------
(* Visiting a cursor again (Spec). *)

\* C25: while a unit is visited, visiting a cursor and then visiting it again
\* with the same answers of the front end leaves the store as the first
\* visit left it: the second visit changes no Entry, and the container names
\* of the Entry's cursor and reference are those of one visit
C25_RevisitIdempotent ==
    pc = "visiting"
      => \A c \in Cursors : \A definition \in DefinitionAnswers(c) :
           \A reference \in ReferencedAnswers(c) :
             LET first == collectSymbols(data, seen, c, definition, reference)
                 second == collectSymbols(first.data, first.seen, c, definition,
                                          reference)
             IN  /\ second.data = first.data
                 /\ second.seen = first.seen

----------------------------------------------------------------------------
(* A staleness scan that fails (SpecScan). *)

\* C26: a call of updateDB that returns false, because the database does not
\* open or because its manifest is not read, leaves data and dependencies as
\* they were before the call and does not write to the database
C26_FailedScanAtomic ==
    [][((\E openOk, readOk \in BOOLEAN : UpdateDB(openOk, readOk))
            /\ updateResult' = "false")
         => /\ data' = data
            /\ dependencies' = dependencies
            /\ db' = db]_vars

====
